---- MODULE Spec2Model ----
(***************************************************************************)
(* Model of the Pong game engine (game/game_engine.py): the frame loop     *)
(* handle_input, update, render, check_game_over, the win detection and    *)
(* the replay menu.  Ball and Paddle (game/ball.py, game/paddle.py) are    *)
(* modelled from their description in the specification.                   *)
(***************************************************************************)
EXTENDS Integers, Sequences, FiniteSets, TLC

(* ---------------- bounds of the model ---------------- *)
\* court passed to GameEngine(width, height)
W == 60
H == 118
\* a court so narrow that one ball can touch both paddles
WNarrow == 42
\* events delivered by one pygame.event.get() in the replay menu
MaxEvents == 2

(* ---------------- program constants ---------------- *)
paddle_width == 10
paddle_height == 100
player_x == 10
ball_size == 7
PLAYER_STEP == 10
DEFAULT_TARGET == 5

\* Ball speed magnitudes and the AI paddle's step (ball.py, paddle.py)
SPEED_X == 5
SPEED_Y == 3
AI_SPEED == 3

VARIABLES width, height, ball, player_y, ai_y, player_score, ai_score,
          target_score, state, pc, winner_text, menu_key, sound_on, sounds,
          frame

vars == <<width, height, ball, player_y, ai_y, player_score, ai_score,
          target_score, state, pc, winner_text, menu_key, sound_on, sounds,
          frame>>

Abs(n) == IF n < 0 THEN -n ELSE n

Max(a, b) == IF a > b THEN a ELSE b

Min(a, b) == IF a < b THEN a ELSE b

ai_x(w) == w - 20

\* height // 2 - 50 of __init__
InitPaddleY(h) == (h \div 2) - 50

(* ---------------- Ball ---------------- *)
NewBall(w, h, vx, vy) ==
    [x |-> w \div 2, y |-> h \div 2, velocity_x |-> vx, velocity_y |-> vy]

\* Ball.move(): advance the position by the velocity
BallMove(b) == [b EXCEPT !.x = b.x + b.velocity_x, !.y = b.y + b.velocity_y]

\* Ball.reset(): back to the court center; the direction may be re-drawn,
\* sx, sy in {-1, 1} are the drawn signs, the magnitudes are kept
BallReset(b, w, h, sx, sy) ==
    [x |-> w \div 2, y |-> h \div 2,
     velocity_x |-> sx * Abs(b.velocity_x),
     velocity_y |-> sy * Abs(b.velocity_y)]

Rect(x, y, w, h) == [x |-> x, y |-> y, w |-> w, h |-> h]

BallRect(b) == Rect(b.x, b.y, ball_size, ball_size)

\* pygame.Rect.colliderect: overlap of positive area
colliderect(r1, r2) ==
    /\ r1.x < r2.x + r2.w
    /\ r2.x < r1.x + r1.w
    /\ r1.y < r2.y + r2.h
    /\ r2.y < r1.y + r1.h

(* ---------------- Paddle ---------------- *)
PaddleRect(x, y) == Rect(x, y, paddle_width, paddle_height)

\* Paddle.move(delta, court_height): shift and clamp to [0, court_height - height]
PaddleMove(y, dy, h) == Max(0, Min(y + dy, h - paddle_height))

\* Paddle.auto_track(ball, court_height): step toward the ball, clamped
auto_track(y, b, h) ==
    IF b.y < y THEN PaddleMove(y, -AI_SPEED, h)
    ELSE IF b.y > y + paddle_height THEN PaddleMove(y, AI_SPEED, h)
    ELSE y

(* ---------------- GameEngine.handle_input ---------------- *)
KeySets == SUBSET {"K_w", "K_s"}

InputMove(y, keys, h) ==
    LET y1 == IF "K_w" \in keys THEN PaddleMove(y, -PLAYER_STEP, h) ELSE y
    IN  IF "K_s" \in keys THEN PaddleMove(y1, PLAYER_STEP, h) ELSE y1

(* ---------------- GameEngine.update ---------------- *)
\* Collide with the player response forgetting the paddle's width
CollideAtPaddleLeft(b, py, ay, w) ==
    IF colliderect(BallRect(b), PaddleRect(player_x, py))
    THEN [ball |-> [b EXCEPT !.x = player_x, !.velocity_x = -b.velocity_x],
          hit |-> "player"]
    ELSE IF colliderect(BallRect(b), PaddleRect(ai_x(w), ay))
    THEN [ball |-> [b EXCEPT !.x = ai_x(w) - ball_size,
                             !.velocity_x = -b.velocity_x],
          hit |-> "ai"]
    ELSE [ball |-> b, hit |-> "none"]

\* Collide with the AI response forgetting the ball's width
CollideAtAILeft(b, py, ay, w) ==
    IF colliderect(BallRect(b), PaddleRect(player_x, py))
    THEN [ball |-> [b EXCEPT !.x = player_x + paddle_width,
                             !.velocity_x = -b.velocity_x],
          hit |-> "player"]
    ELSE IF colliderect(BallRect(b), PaddleRect(ai_x(w), ay))
    THEN [ball |-> [b EXCEPT !.x = ai_x(w), !.velocity_x = -b.velocity_x],
          hit |-> "ai"]
    ELSE [ball |-> b, hit |-> "none"]

\* Collide with two independent ifs instead of if / elif
CollideNoElif(b, py, ay, w) ==
    LET hp == colliderect(BallRect(b), PaddleRect(player_x, py))
        b1 == IF hp THEN [b EXCEPT !.x = player_x + paddle_width,
                                   !.velocity_x = -b.velocity_x]
              ELSE b
        ha == colliderect(BallRect(b1), PaddleRect(ai_x(w), ay))
        b2 == IF ha THEN [b1 EXCEPT !.x = ai_x(w) - ball_size,
                                    !.velocity_x = -b1.velocity_x]
              ELSE b1
    IN  [ball |-> b2, hit |-> IF hp THEN "player" ELSE IF ha THEN "ai" ELSE "none"]

\* paddle collisions of the moved ball: player first, else AI
Collide(b, py, ay, w) ==
    IF colliderect(BallRect(b), PaddleRect(player_x, py))
    THEN [ball |-> [b EXCEPT !.x = player_x + paddle_width,
                             !.velocity_x = -b.velocity_x],
          hit |-> "player"]
    ELSE IF colliderect(BallRect(b), PaddleRect(ai_x(w), ay))
    THEN [ball |-> [b EXCEPT !.x = ai_x(w) - ball_size,
                             !.velocity_x = -b.velocity_x],
          hit |-> "ai"]
    ELSE [ball |-> b, hit |-> "none"]

\* WallHit testing the top wall only
WallHitTopOnly(b, h) == b.y <= 0

\* wall bounce: invert velocity_y, no repositioning
WallHit(b, h) == b.y <= 0 \/ b.y + ball_size >= h

\* WallBounce assigning -1 instead of multiplying by -1
WallBounceAssign(b, h) ==
    IF WallHit(b, h) THEN [b EXCEPT !.velocity_y = -1] ELSE b

\* WallBounce that also puts the ball back inside the court
WallBounceClamp(b, h) ==
    IF WallHit(b, h)
    THEN [b EXCEPT !.velocity_y = -b.velocity_y,
                   !.y = IF b.y <= 0 THEN 0 ELSE h - ball_size]
    ELSE b

WallBounce(b, h) ==
    IF WallHit(b, h) THEN [b EXCEPT !.velocity_y = -b.velocity_y] ELSE b

\* Scorer crediting the left edge to the player
ScorerLeftPlayer(b, w) ==
    IF b.x <= 0 THEN "player" ELSE IF b.x >= w THEN "player" ELSE "none"

\* Scorer with a strict test at the right edge
ScorerRightStrict(b, w) ==
    IF b.x <= 0 THEN "ai" ELSE IF b.x > w THEN "player" ELSE "none"

\* Scorer testing the ball's right edge against the court width
ScorerRightEdge(b, w) ==
    IF b.x <= 0 THEN "ai" ELSE IF b.x + ball_size >= w THEN "player" ELSE "none"

\* who scores for a ball at x
Scorer(b, w) ==
    IF b.x <= 0 THEN "ai" ELSE IF b.x >= w THEN "player" ELSE "none"

\* TrackedBall handing auto_track the ball of before the scoring step
TrackedBallBeforeScoring(mid, b2) == mid

\* the ball auto_track receives: self.ball as the scoring step left it
TrackedBall(mid, b2) == b2

\* the sounds of lines 86-92, played after the score sound
BounceSounds(b, prev_vx, prev_vy) ==
    IF b.velocity_x # prev_vx THEN <<"paddle">>
    ELSE IF b.velocity_y # prev_vy THEN <<"wall">>
    ELSE <<>>

ScoreSounds(scorer) == IF scorer # "none" THEN <<"score">> ELSE <<>>

\* what the last update saw: the velocity it saved, the moved ball's x, the AI
\* paddle it tested, the paddle hit, the wall hit, the ball before the scoring
\* step, the scorer and the ball given to auto_track
NoFrame ==
    [prev_vx |-> 0, prev_vy |-> 0, moved_x |-> 0, ai_y |-> 0,
     hit |-> "none", wall |-> FALSE,
     mid |-> [x |-> 0, y |-> 0, velocity_x |-> 0, velocity_y |-> 0],
     scorer |-> "none",
     tracked |-> [x |-> 0, y |-> 0, velocity_x |-> 0, velocity_y |-> 0]]

(* ---------------- initial state ---------------- *)
InitOn(w) ==
    /\ width = w
    /\ height = H
    /\ \E vx \in {-SPEED_X, SPEED_X}, vy \in {-SPEED_Y, SPEED_Y} :
          ball = NewBall(w, H, vx, vy)
    /\ player_y = InitPaddleY(H)
    /\ ai_y = InitPaddleY(H)
    /\ player_score = 0
    /\ ai_score = 0
    /\ target_score = DEFAULT_TARGET
    /\ state = "PLAYING"
    /\ pc = "handle_input"
    /\ winner_text = "None"
    /\ menu_key = "None"
    /\ sound_on \in BOOLEAN
    /\ sounds = <<>>
    /\ frame = NoFrame

Init == InitOn(W)

(* ---------------- actions ---------------- *)
\* the frame loop of the caller: handle_input, update, render, check_game_over
LoopNext(p) ==
    CASE p = "handle_input" -> "update"
      [] p = "update" -> "render"
      [] p = "render" -> "check_game_over"
      [] OTHER -> "handle_input"

HandleInput ==
    /\ state = "PLAYING" /\ pc = "handle_input"
    /\ \E keys \in KeySets : player_y' = InputMove(player_y, keys, height)
    /\ pc' = LoopNext(pc)
    /\ UNCHANGED <<width, height, ball, ai_y, player_score, ai_score,
                   target_score, state, winner_text, menu_key, sound_on, sounds,
                   frame>>

Update ==
    /\ state = "PLAYING" /\ pc = "update"
    /\ LET prev_vx == ball.velocity_x
           prev_vy == ball.velocity_y
           c       == Collide(BallMove(ball), player_y, ai_y, width)
           mid     == WallBounce(c.ball, height)
           scorer  == Scorer(mid, width)
       IN  \E sx \in {-1, 1}, sy \in {-1, 1} :
             LET b2 == IF scorer = "none" THEN mid
                       ELSE BallReset(mid, width, height, sx, sy)
             IN  /\ ball' = b2
                 /\ ai_score' = IF scorer = "ai" THEN ai_score + 1 ELSE ai_score
                 /\ player_score' = IF scorer = "player" THEN player_score + 1
                                    ELSE player_score
                 /\ sounds' = IF sound_on
                              THEN ScoreSounds(scorer) \o
                                   BounceSounds(b2, prev_vx, prev_vy)
                              ELSE <<>>
                 /\ ai_y' = auto_track(ai_y, TrackedBall(mid, b2), height)
                 /\ frame' = [prev_vx |-> prev_vx, prev_vy |-> prev_vy,
                              moved_x |-> BallMove(ball).x, ai_y |-> ai_y,
                              hit |-> c.hit, wall |-> WallHit(c.ball, height),
                              mid |-> mid, scorer |-> scorer,
                              tracked |-> TrackedBall(mid, b2)]
    /\ pc' = LoopNext(pc)
    /\ UNCHANGED <<width, height, player_y, target_score, state, winner_text,
                   menu_key, sound_on>>

Render ==
    /\ state = "PLAYING" /\ pc = "render"
    /\ pc' = LoopNext(pc)
    /\ UNCHANGED <<width, height, ball, player_y, ai_y, player_score, ai_score,
                   target_score, state, winner_text, menu_key, sound_on, sounds,
                   frame>>

(* ---------------- GameEngine.check_game_over ---------------- *)
\* winner with strict comparisons
winnerStrict(ps, as, t) ==
    IF ps > t THEN "Player Wins!"
    ELSE IF as > t THEN "AI Wins!"
    ELSE "None"

\* winner with a strict comparison for the AI
winnerAIStrict(ps, as, t) ==
    IF ps >= t THEN "Player Wins!"
    ELSE IF as > t THEN "AI Wins!"
    ELSE "None"

\* winner with a strict comparison for the player
winnerPlayerStrict(ps, as, t) ==
    IF ps > t THEN "Player Wins!"
    ELSE IF as >= t THEN "AI Wins!"
    ELSE "None"

winner(ps, as, t) ==
    IF ps >= t THEN "Player Wins!"
    ELSE IF as >= t THEN "AI Wins!"
    ELSE "None"

CheckGameOver ==
    /\ state = "PLAYING" /\ pc = "check_game_over"
    /\ LET wt == winner(player_score, ai_score, target_score)
       IN  /\ winner_text' = wt
           /\ IF wt # "None"
              THEN state' = "GAME_OVER" /\ pc' = pc
              ELSE state' = state /\ pc' = LoopNext(pc)
    /\ UNCHANGED <<width, height, ball, player_y, ai_y, player_score, ai_score,
                   target_score, menu_key, sound_on, sounds, frame>>

\* the winner message has been shown for time.sleep(2); open the replay menu
GameOverPause ==
    /\ state = "GAME_OVER"
    /\ state' = "REPLAY_MENU"
    /\ UNCHANGED <<width, height, ball, player_y, ai_y, player_score, ai_score,
                   target_score, pc, winner_text, menu_key, sound_on, sounds,
                   frame>>

(* ---------------- GameEngine.show_replay_menu ---------------- *)
Events == {"QUIT", "K_3", "K_5", "K_7", "K_ESCAPE", "K_other"}

EventBatches == UNION {[1..n -> Events] : n \in 0..MaxEvents}

\* MenuTarget taking best-of-5 as first to 5
MenuTargetFive(key) ==
    IF key = "K_3" THEN 2 ELSE IF key = "K_5" THEN 5 ELSE 4

\* target_score chosen by a digit key
MenuTarget(key) ==
    IF key = "K_3" THEN 2 ELSE IF key = "K_5" THEN 3 ELSE 4

\* ProcessEvents leaving the menu on any key press
RECURSIVE ProcessEventsAnyKey(_, _)
ProcessEventsAnyKey(evs, m) ==
    IF evs = <<>> THEN m
    ELSE LET e == Head(evs)
         IN  IF e = "QUIT" \/ e = "K_ESCAPE"
             THEN [m EXCEPT !.quit = TRUE, !.key = e]
             ELSE IF e \in {"K_3", "K_5", "K_7"}
             THEN ProcessEventsAnyKey(Tail(evs),
                     [m EXCEPT !.target = MenuTarget(e), !.key = e,
                               !.running = FALSE])
             ELSE ProcessEventsAnyKey(Tail(evs), [m EXCEPT !.running = FALSE])

\* the for loop over one pygame.event.get(): m = [target, key, running, quit],
\* key the event that last set target or quit
RECURSIVE ProcessEvents(_, _)
ProcessEvents(evs, m) ==
    IF evs = <<>> THEN m
    ELSE LET e == Head(evs)
         IN  IF e = "QUIT" \/ e = "K_ESCAPE"
             THEN [m EXCEPT !.quit = TRUE, !.key = e]
             ELSE IF e \in {"K_3", "K_5", "K_7"}
             THEN ProcessEvents(Tail(evs),
                     [m EXCEPT !.target = MenuTarget(e), !.key = e,
                               !.running = FALSE])
             ELSE ProcessEvents(Tail(evs), m)

\* ReplayPaddleY centering the paddle's top edge instead of the paddle
ReplayPaddleTop(h) == h \div 2

\* self.height // 2 - self.paddle_height // 2
ReplayPaddleY(h) == (h \div 2) - (paddle_height \div 2)

\* one turn of the menu loop: draw, poll the events, delay
MenuPoll ==
    /\ state = "REPLAY_MENU"
    /\ \E evs \in EventBatches :
         LET m == ProcessEvents(evs, [target |-> target_score, key |-> menu_key,
                                      running |-> TRUE, quit |-> FALSE])
         IN  /\ target_score' = m.target
             /\ menu_key' = m.key
             /\ IF m.quit
                THEN /\ state' = "EXIT"
                     /\ UNCHANGED <<ball, player_y, ai_y, player_score,
                                    ai_score, pc>>
                ELSE IF m.running
                THEN UNCHANGED <<state, ball, player_y, ai_y, player_score,
                                 ai_score, pc>>
                ELSE /\ player_score' = 0
                     /\ ai_score' = 0
                     /\ \E sx \in {-1, 1}, sy \in {-1, 1} :
                          ball' = BallReset(ball, width, height, sx, sy)
                     /\ player_y' = ReplayPaddleY(height)
                     /\ ai_y' = ReplayPaddleY(height)
                     /\ state' = "PLAYING"
                     /\ pc' = LoopNext(pc)
    /\ UNCHANGED <<width, height, winner_text, sound_on, sounds, frame>>

Next ==
    \/ HandleInput
    \/ Update
    \/ Render
    \/ CheckGameOver
    \/ GameOverPause
    \/ MenuPoll

Spec == Init /\ [][Next]_vars

\* the same game on a court where the paddles nearly touch
InitNarrow == InitOn(WNarrow)

SpecNarrow == InitNarrow /\ [][Next]_vars

(* ======================= properties ======================= *)
InBounds(y) == 0 <= y /\ y <= height - paddle_height

CenterX == width \div 2
CenterY == height \div 2
AtCenter(b) == b.x = CenterX /\ b.y = CenterY

\* the ball as the collision step of this update will see it
MovedBall == BallMove(ball)
OverPlayer == colliderect(BallRect(MovedBall), PaddleRect(player_x, player_y))
OverAI == colliderect(BallRect(MovedBall), PaddleRect(ai_x(width), ai_y))

\* C1: PLAYING is left only by check_game_over, and by it exactly when
\* player_score >= target_score or ai_score >= target_score; it then shows the
\* winner (the player when player_score >= target_score, so at 5 of 5) and
\* goes on to the replay menu; otherwise it changes nothing of the game.
C1_GameOverExactly ==
    [][/\ (state = "PLAYING" /\ state' # "PLAYING") => pc = "check_game_over"
       /\ (state = "PLAYING" /\ pc = "check_game_over") =>
            /\ (state' # "PLAYING") <=>
                 (player_score >= target_score \/ ai_score >= target_score)
            /\ state' # "PLAYING" =>
                 /\ state' = "GAME_OVER"
                 /\ winner_text' = IF player_score >= target_score
                                   THEN "Player Wins!" ELSE "AI Wins!"
            /\ state' = "PLAYING" =>
                 UNCHANGED <<ball, player_y, ai_y, player_score, ai_score,
                             target_score, sounds>>
       /\ state = "GAME_OVER" => state' = "REPLAY_MENU"]_vars

C1_Witness ==
    /\ state = "REPLAY_MENU" /\ winner_text = "Player Wins!"
    /\ player_score = 5 /\ target_score = 5

\* C2: an update whose ball, after the move and collision steps, has x <= 0
\* adds exactly 1 to ai_score, leaves player_score, and puts the ball at the
\* court center with the velocity magnitudes it had before the update.
C2_LeftEdgeScoresAI ==
    [][(pc = "update" /\ pc' = "render" /\ frame'.mid.x <= 0) =>
         /\ ai_score' = ai_score + 1
         /\ player_score' = player_score
         /\ AtCenter(ball')
         /\ Abs(ball'.velocity_x) = Abs(ball.velocity_x)
         /\ Abs(ball'.velocity_y) = Abs(ball.velocity_y)]_vars

C2_Witness ==
    /\ pc = "render" /\ frame.mid.x <= 0 /\ frame.scorer = "ai"
    /\ ai_score = 3 /\ AtCenter(ball)

\* C3: an update whose ball, after the move and collision steps, has
\* x >= court width (and not x <= 0) adds exactly 1 to player_score, leaves
\* ai_score, and puts the ball at the court center.
C3_RightEdgeScoresPlayer ==
    [][(pc = "update" /\ pc' = "render" /\ frame'.mid.x >= width
          /\ ~(frame'.mid.x <= 0)) =>
         /\ player_score' = player_score + 1
         /\ ai_score' = ai_score
         /\ AtCenter(ball')]_vars

C3_Witness ==
    /\ pc = "render" /\ frame.mid.x = width /\ player_score = 2
    /\ AtCenter(ball)

\* C4: an update whose moved ball overlaps the player paddle ends with
\* ball.x = player.x + player.width and velocity_x of the opposite sign.
C4_PlayerCollision ==
    [][(pc = "update" /\ pc' = "render" /\ OverPlayer) =>
         /\ ball'.x = player_x + paddle_width
         /\ ball'.velocity_x * ball.velocity_x < 0]_vars

C4_Witness ==
    /\ pc = "render" /\ frame.hit = "player"
    /\ ball.x = player_x + paddle_width /\ ball.velocity_x > 0
    /\ player_y # InitPaddleY(height)

\* C5: an update whose moved ball overlaps the AI paddle and not the player
\* paddle ends with ball.x = ai.x - ball.width and velocity_x of the opposite
\* sign.
C5_AICollision ==
    [][(pc = "update" /\ pc' = "render" /\ OverAI /\ ~OverPlayer) =>
         /\ ball'.x = ai_x(width) - ball_size
         /\ ball'.velocity_x * ball.velocity_x < 0]_vars

C5_Witness ==
    /\ pc = "render" /\ frame.hit = "ai"
    /\ ball.x = ai_x(width) - ball_size /\ ball.velocity_x < 0
    /\ ai_y # InitPaddleY(height)

\* C6: the collision step inverts velocity_x once when the moved ball overlaps
\* a paddle and not at all otherwise, and a ball overlapping both paddles gets
\* the player response only: x = player.x + player.width after the step.
C6_OneCollisionResponse ==
    [][(pc = "update" /\ pc' = "render") =>
         /\ (OverPlayer \/ OverAI) =>
               frame'.mid.velocity_x = -ball.velocity_x
         /\ ~(OverPlayer \/ OverAI) =>
               /\ frame'.mid.velocity_x = ball.velocity_x
               /\ frame'.mid.x = MovedBall.x
         /\ (OverPlayer /\ OverAI) =>
               /\ frame'.mid.x = player_x + paddle_width
               /\ frame'.mid.x # ai_x(width) - ball_size
               /\ ball'.x = player_x + paddle_width]_vars

\* the last update met a ball over both paddles
C6_Witness ==
    /\ pc = "render" /\ frame.hit = "player"
    /\ colliderect(BallRect([frame.mid EXCEPT !.x = frame.moved_x]),
                   PaddleRect(ai_x(width), frame.ai_y))
    /\ ball.x = player_x + paddle_width

\* C7: a selection in the replay menu leaves target_score at 2 for key 3, 3
\* for key 5 and 4 for key 7, both scores at 0, the ball at the court center
\* and both paddles at height div 2 - paddle_height div 2, in PLAYING.
C7_ReplaySelection ==
    [][(state = "REPLAY_MENU" /\ state' # "REPLAY_MENU" /\ state' # "EXIT") =>
         /\ state' = "PLAYING" /\ pc' = "handle_input"
         /\ menu_key' \in {"K_3", "K_5", "K_7"}
         /\ menu_key' = "K_3" => target_score' = 2
         /\ menu_key' = "K_5" => target_score' = 3
         /\ menu_key' = "K_7" => target_score' = 4
         /\ player_score' = 0 /\ ai_score' = 0
         /\ AtCenter(ball')
         /\ player_y' = (height \div 2) - (paddle_height \div 2)
         /\ ai_y' = (height \div 2) - (paddle_height \div 2)]_vars

\* a second game, started with best of 5 after a first one was replayed
C7_Witness ==
    /\ state = "PLAYING" /\ pc = "handle_input" /\ menu_key = "K_5"
    /\ target_score = 3 /\ player_score = 0 /\ ai_score = 0
    /\ AtCenter(ball) /\ winner_text = "AI Wins!"

\* the one sound the priority score > paddle-hit > wall-bounce selects
PrioritySound(f) ==
    IF f.scorer # "none" THEN <<"score">>
    ELSE IF f.hit # "none" THEN <<"paddle">>
    ELSE IF f.wall THEN <<"wall">>
    ELSE <<>>

\* C8: with sounds enabled an update plays exactly the one sound of its
\* event by the priority score > paddle-hit > wall-bounce, never two.
C8_OneSoundPerFrame ==
    (sound_on /\ pc = "render") =>
        /\ Len(sounds) <= 1
        /\ sounds = PrioritySound(frame)

\* C9: both paddles stay inside the court: 0 <= y <= height - paddle_height.
C9_PaddlesInCourt == InBounds(player_y) /\ InBounds(ai_y)

\* in a replayed game the player is clamped at the bottom, the AI at the top
C9_Witness ==
    /\ menu_key # "None" /\ state = "PLAYING"
    /\ player_y = height - paddle_height /\ ai_y = 0

\* C10: the ball keeps the magnitudes of its initial velocity.
C10_SpeedMagnitude ==
    /\ Abs(ball.velocity_x) = SPEED_X
    /\ Abs(ball.velocity_y) = SPEED_Y

\* after a point, a paddle hit that coincides with a wall bounce
C10_Witness ==
    /\ pc = "render" /\ frame.hit # "none" /\ frame.wall
    /\ player_score + ai_score > 0

Modes == {"PLAYING", "GAME_OVER", "REPLAY_MENU", "EXIT"}

ModeSteps ==
    {<<"PLAYING", "GAME_OVER">>, <<"GAME_OVER", "REPLAY_MENU">>,
     <<"REPLAY_MENU", "PLAYING">>, <<"REPLAY_MENU", "EXIT">>}

\* C11: the mode moves only PLAYING -> GAME_OVER -> REPLAY_MENU -> PLAYING or
\* REPLAY_MENU -> EXIT; the menu is left to PLAYING only by a key 3, 5 or 7
\* and to EXIT only by Escape or quit, EXIT resets nothing and is final, and
\* a poll that stays in the menu changes neither scores nor target_score.
C11_ModeTransitions ==
    [][/\ state \in Modes
       /\ state' # state => <<state, state'>> \in ModeSteps
       /\ (state = "REPLAY_MENU" /\ state' = "PLAYING") =>
             menu_key' \in {"K_3", "K_5", "K_7"}
       /\ (state = "REPLAY_MENU" /\ state' = "EXIT") =>
             /\ menu_key' \in {"K_ESCAPE", "QUIT"}
             /\ UNCHANGED <<ball, player_y, ai_y, player_score, ai_score>>
       /\ (state = "REPLAY_MENU" /\ state' = "REPLAY_MENU") =>
             UNCHANGED <<ball, player_y, ai_y, player_score, ai_score,
                         target_score>>
       /\ state # "EXIT"]_vars

\* the game was quit from the menu of a replayed game
C11_Witness ==
    /\ state = "EXIT" /\ menu_key = "QUIT" /\ target_score = 3
    /\ ai_score = 3 /\ winner_text = "AI Wins!"

\* C12: while the game runs (frame loop, winner display, replay menu) the two
\* scores are never both at or above target_score, so a winner seen by
\* check_game_over is the only side at or above it.
C12_SingleWinner ==
    state # "EXIT" =>
        ~(player_score >= target_score /\ ai_score >= target_score)

\* check_game_over saw a winner one point ahead
C12_Witness ==
    /\ state = "GAME_OVER" /\ winner_text = "AI Wins!"
    /\ ai_score = target_score /\ player_score = target_score - 1

\* the ball after the move and collision steps of this update
CollidedBall == Collide(BallMove(ball), player_y, ai_y, width).ball

\* C13: the wall-bounce step inverts velocity_y exactly when the ball after
\* the move and collision steps has y <= 0 or y + height >= court height, and
\* leaves x and y; this does not depend on whether a point is scored.
C13_WallBounceStep ==
    [][(pc = "update" /\ pc' = "render") =>
         /\ frame'.mid.x = CollidedBall.x
         /\ frame'.mid.y = CollidedBall.y
         /\ frame'.mid.velocity_x = CollidedBall.velocity_x
         /\ frame'.mid.velocity_y =
              IF CollidedBall.y <= 0 \/ CollidedBall.y + ball_size >= height
              THEN -CollidedBall.velocity_y
              ELSE CollidedBall.velocity_y
         /\ frame'.wall =
              (CollidedBall.y <= 0 \/ CollidedBall.y + ball_size >= height)]_vars

\* a wall bounce and a point in the same update
C13_Witness ==
    /\ pc = "render" /\ frame.wall /\ frame.scorer # "none"
    /\ frame.mid.velocity_y = -frame.prev_vy

\* C14 claims that some run has velocity_y inverted by the wall-bounce step in
\* two consecutive frames.  That is a statement about the existence of a run;
\* what can be checked over all runs is its opposite: an update that follows an
\* update with a wall bounce never bounces again, the move in between takes the
\* ball out of contact.
C14_NoBounceInNextFrame ==
    [][(pc = "update" /\ pc' = "render" /\ frame.wall) => ~frame'.wall]_vars

SamePlace(b1, b2) == b1.x = b2.x /\ b1.y = b2.y

\* C15 as claimed: in every update, scoring frames included, auto_track is
\* given the position the move and collision steps of that update produced.
C15_TracksCollidedBall ==
    [][(pc = "update" /\ pc' = "render") =>
         /\ SamePlace(frame'.tracked, frame'.mid)
         /\ ai_y' = auto_track(ai_y, frame'.mid, height)]_vars

\* C15 as amended: auto_track is the last step of update and is given the
\* ball as the update leaves it: the position of the move and collision steps
\* in a frame without a point, the court center in a frame with a point.
C15_TracksBallAfterScoring ==
    [][(pc = "update" /\ pc' = "render") =>
         /\ ai_y' = auto_track(ai_y, frame'.tracked, height)
         /\ frame'.tracked = ball'
         /\ frame'.scorer = "none" => SamePlace(frame'.tracked, frame'.mid)
         /\ frame'.scorer # "none" => AtCenter(frame'.tracked)]_vars

\* a point after which the AI moved otherwise than the leaving ball asked
C15_Witness ==
    /\ pc = "render" /\ frame.scorer # "none" /\ AtCenter(frame.tracked)
    /\ ai_y # auto_track(frame.ai_y, frame.mid, height)

\* C16: an update whose ball has 0 < x < width after the collision step
\* changes no score and does not reset the ball; every update changes at most
\* one score, by +1; handle_input changes no score, ball or target_score.
C16_ScoreFrame ==
    [][/\ (pc = "update" /\ pc' = "render") =>
            /\ (0 < frame'.mid.x /\ frame'.mid.x < width) =>
                  /\ player_score' = player_score /\ ai_score' = ai_score
                  /\ ball' = frame'.mid
            /\ \/ player_score' = player_score /\ ai_score' = ai_score
               \/ player_score' = player_score + 1 /\ ai_score' = ai_score
               \/ player_score' = player_score /\ ai_score' = ai_score + 1
       /\ (pc = "handle_input" /\ pc' = "update") =>
            UNCHANGED <<player_score, ai_score, ball, target_score>>]_vars

\* no point although the ball's right edge is past the court
C16_Witness ==
    /\ pc = "render" /\ frame.scorer = "none" /\ ball = frame.mid
    /\ frame.mid.x < width /\ frame.mid.x + ball_size >= width
    /\ player_score > 0 /\ ai_score > 0

ScoresWithinTarget ==
    /\ 0 <= player_score /\ player_score <= target_score
    /\ 0 <= ai_score /\ ai_score <= target_score
    /\ (state = "PLAYING" /\ pc = "handle_input") =>
          (player_score < target_score /\ ai_score < target_score)

\* C17 as claimed: in every reachable state both scores are in
\* 0..target_score, and strictly below it at the start of a frame.
C17_ScoresWithinTargetAlways == ScoresWithinTarget

\* C17 as amended: the same in every state in which the process has not quit;
\* a quit that follows a digit key in one event batch ends the process with the
\* lowered target_score and the scores of the finished game.
C17_ScoresWithinTargetRunning == state # "EXIT" => ScoresWithinTarget

\* a frame of a best-of-3 game played after a first-to-5 game
C17_Witness ==
    /\ state = "PLAYING" /\ pc = "handle_input" /\ menu_key = "K_3"
    /\ target_score = 2 /\ player_score = 1 /\ ai_score = 1

\* C18: a collision is detected only on a ball moving toward the paddle, and
\* the response sends it away: velocity_x > 0 after the player paddle,
\* velocity_x < 0 after the AI paddle.
C18_BounceAway ==
    [][(pc = "update" /\ pc' = "render") =>
         /\ OverPlayer =>
               /\ ball.velocity_x < 0
               /\ frame'.mid.velocity_x > 0 /\ ball'.velocity_x > 0
         /\ (OverAI /\ ~OverPlayer) =>
               /\ ball.velocity_x > 0
               /\ frame'.mid.velocity_x < 0 /\ ball'.velocity_x < 0]_vars

\* the AI paddle caught a ball whose left edge was already past its face
C18_Witness ==
    /\ pc = "render" /\ frame.hit = "ai" /\ frame.moved_x >= ai_x(width)
    /\ ball.velocity_x < 0

\* C19: the ball overshoots the top or the bottom wall by less than one step:
\* -|velocity_y| < y and y + height < court height + |velocity_y|.
C19_BallInCourtVertically ==
    /\ -Abs(ball.velocity_y) < ball.y
    /\ ball.y + ball_size < height + Abs(ball.velocity_y)

\* the ball past the bottom wall, in a replayed game
C19_Witness ==
    /\ ball.y + ball_size > height /\ menu_key # "None" /\ state = "PLAYING"
====
